---- MODULE Spec2Model ----
(***************************************************************************)
(* The markdown-to-terminal render state machine of src/src/main.rs        *)
(* (render_markdown, flush_newlines, render_text, render_code_block), and   *)
(* the command loop of main that calls it once per answered prompt.        *)
(*                                                                         *)
(* A string is a sequence of one-character strings; the output is the      *)
(* sequence of everything print! wrote, one element per character, with    *)
(* each ANSI escape sequence kept as one element (the name of the Rust     *)
(* constant that holds it).  An event of the parser is a record            *)
(* [tag, num, txt].                                                        *)
(***************************************************************************)
EXTENDS Integers, Sequences, FiniteSets, TLC

(***************************************************************************)
(* Bounds of the exploration.                                              *)
(***************************************************************************)
\* events of an arbitrary (possibly malformed) stream
MaxEvents == 2
\* events of a well-formed list document
MaxListEvents == 10
\* events of a well-formed paragraph document
MaxParaEvents == 6
\* events of a well-formed document of code blocks
MaxCodeEvents == 5
\* events of a well-formed document of every kind of block and span
MaxDocEvents == 5
\* events of each response rendered by the command loop
MaxMainEvents == 3
\* lines the command loop reads
MaxReads == 2

(***************************************************************************)
(* Program constants.                                                      *)
(***************************************************************************)
\* term_size::dimensions().unwrap_or((80, 24))
DefaultCols == 80
\* .min(100) of wrap_width
MaxWrapWidth == 100
\* the cap of the rule: wrap_width.min(50)
RuleWidth == 50
\* the width of the fallback borders: repeat(50)
BorderWidth == 50
\* {:2} of the ordered item marker
CounterFieldWidth == 2

\* The ANSI style table: every escape that starts a style, and the reset.
StyleStarts ==
    {"BOLD", "DIM", "ITALIC", "HEADING_COLOR", "BLUE", "KEYWORD_COLOR",
     "YELLOW", "RED", "MAGENTA", "STRIKETHROUGH"}
RESET == "RESET"
Escapes == StyleStarts \cup {RESET}
\* Glyphs outside ASCII are written by name, one element each
LIST_ITEM_BULLET == "<bullet>"
HBAR == "<hbar>"
VBAR == "<vbar>"
TOP_LEFT == "<top-left>"
BOTTOM_LEFT == "<bottom-left>"
BACKTICK == "<backtick>"
NL == "\n"
SP == " "

(***************************************************************************)
(* Strings.                                                                *)
(***************************************************************************)
Max(a, b) == IF a >= b THEN a ELSE b
Min(a, b) == IF a <= b THEN a ELSE b
\* usize::saturating_sub
SaturatingSub(a, b) == IF a >= b THEN a - b ELSE 0

\* str::repeat
Repeat(c, n) == [i \in 1..n |-> c]

RECURSIVE Concat(_)
\* the concatenation of a sequence of strings
Concat(ss) == IF ss = <<>> THEN <<>> ELSE Head(ss) \o Concat(Tail(ss))

RECURSIVE TrimStartMatches(_, _)
\* str::trim_start_matches(c)
TrimStartMatches(s, c) ==
    IF s # <<>> /\ Head(s) = c THEN TrimStartMatches(Tail(s), c) ELSE s

RECURSIVE TrimEndMatches(_, _)
\* str::trim_end_matches(c)
TrimEndMatches(s, c) ==
    IF s # <<>> /\ s[Len(s)] = c
    THEN TrimEndMatches(SubSeq(s, 1, Len(s) - 1), c)
    ELSE s

\* char::is_whitespace on the characters of the model
IsWhitespace(c) == c \in {SP, NL}

\* str::trim().is_empty()
IsBlank(s) == \A i \in 1..Len(s) : IsWhitespace(s[i])

RECURSIVE Split(_, _)
\* str::split(c): the pieces between the occurrences of c (at least one piece)
Split(s, c) ==
    IF \E i \in 1..Len(s) : s[i] = c
    THEN LET i == CHOOSE k \in 1..Len(s) :
                      s[k] = c /\ \A j \in 1..(k - 1) : s[j] # c
         IN  <<SubSeq(s, 1, i - 1)>> \o Split(SubSeq(s, i + 1, Len(s)), c)
    ELSE <<s>>

\* str::lines: the pieces between line breaks, without the empty piece that
\* follows a final line break; the empty string has no line
Lines(s) ==
    LET pieces == Split(s, NL)
    IN  IF pieces[Len(pieces)] = <<>>
        THEN SubSeq(pieces, 1, Len(pieces) - 1)
        ELSE pieces

RECURSIVE Digits(_)
\* the decimal digits of a natural number, as Display writes them
Digits(n) ==
    LET d == <<"0", "1", "2", "3", "4", "5", "6", "7", "8", "9">>[(n % 10) + 1]
    IN  IF n < 10 THEN <<d>> ELSE Append(Digits(n \div 10), d)

\* format!("{:w}", n): right-justified in a field of w, never truncated
FormatWidth(n, w) == Repeat(SP, SaturatingSub(w, Len(Digits(n)))) \o Digits(n)

RECURSIVE ParseDigits(_)
\* the number a string of decimal digits denotes (the inverse of Digits)
ParseDigits(s) ==
    LET v(c) == CHOOSE k \in 0..9 : Digits(k) = <<c>>
    IN  IF s = <<>> THEN 0
        ELSE 10 * ParseDigits(SubSeq(s, 1, Len(s) - 1)) + v(s[Len(s)])

IsGlyph(c) == c \notin Escapes

RECURSIVE Visible(_)
\* The visible text of an output: the escape sequences stripped (by halves,
\* to keep the recursion shallow on a long output)
Visible(out) ==
    IF out = <<>> THEN <<>>
    ELSE IF Len(out) = 1 THEN (IF IsGlyph(out[1]) THEN out ELSE <<>>)
    ELSE LET h == Len(out) \div 2
         IN  Visible(SubSeq(out, 1, h)) \o Visible(SubSeq(out, h + 1, Len(out)))

(***************************************************************************)
(* textwrap::wrap(line, width) under                                       *)
(* Options::new(w).word_separator(AsciiSpace).break_words(false):          *)
(* the words of the line (a word is a run of non-spaces with the spaces    *)
(* that follow it) are put on lines first-fit; a word wider than the width *)
(* gets a line of its own and is not broken; the spaces that end a line    *)
(* are dropped.                                                            *)
(***************************************************************************)
RECURSIVE FindWords(_)
\* WordSeparator::AsciiSpace.find_words: a sequence of [word, ws] (lengths)
FindWords(s) ==
    IF s = <<>> THEN <<>>
    ELSE LET nonsp == IF \E i \in 1..Len(s) : s[i] = SP
                      THEN (CHOOSE i \in 1..Len(s) :
                               s[i] = SP /\ \A j \in 1..(i - 1) : s[j] # SP) - 1
                      ELSE Len(s)
             rest  == SubSeq(s, nonsp + 1, Len(s))
             ws    == Len(rest) - Len(TrimStartMatches(rest, SP))
         IN  <<[word |-> nonsp, ws |-> ws]>>
             \o FindWords(SubSeq(rest, ws + 1, Len(rest)))

RECURSIVE WrapFirstFit(_, _, _, _, _)
\* wrap_first_fit: the index ranges <<from, to>> of the words of each line
WrapFirstFit(words, width, i, start, w) ==
    IF i > Len(words) THEN <<<<start, Len(words)>>>>
    ELSE IF w + words[i].word > width /\ i > start
         THEN <<<<start, i - 1>>>>
              \o WrapFirstFit(words, width, i + 1, i,
                              words[i].word + words[i].ws)
         ELSE WrapFirstFit(words, width, i + 1, start,
                           w + words[i].word + words[i].ws)

RECURSIVE SumLen(_, _, _)
SumLen(words, from, to) ==
    IF from > to THEN 0
    ELSE words[from].word + words[from].ws + SumLen(words, from + 1, to)

\* textwrap::wrap: the wrapped lines of one line
Wrap(line, width) ==
    LET words  == FindWords(line)
        ranges == WrapFirstFit(words, width, 1, 1, 0)
        startOf(r) == SumLen(words, 1, r[1] - 1)
        lenOf(r)   == SumLen(words, r[1], r[2]) - words[r[2]].ws
    IN  IF words = <<>> THEN <<<<>>>>
        ELSE [k \in 1..Len(ranges) |->
                 SubSeq(line, startOf(ranges[k]) + 1,
                        startOf(ranges[k]) + lenOf(ranges[k]))]

(***************************************************************************)
(* The events of the parser (pulldown_cmark::Event).                       *)
(***************************************************************************)
\* Option::None of Option<u64> (a list without a start number)
NoNum == -1

Ev(kind, tag, num, txt) == [kind |-> kind, tag |-> tag, num |-> num, txt |-> txt]
StartEv(tag, num, txt) == Ev("Start", tag, num, txt)
EndEv(tag) == Ev("End", tag, NoNum, <<>>)

\* Tags whose TagEnd closes what their Tag opened
BlockTags == {"Paragraph", "Heading", "BlockQuote", "CodeBlock", "List"}
InlineTags == {"Emphasis", "Strong", "Strikethrough", "Link"}
\* where the parser yields inline content (a tight list item holds it bare)
InlineParents == InlineTags \cup {"Paragraph", "Heading", "Item"}
\* where the parser yields blocks
BlockParents == {"Root", "BlockQuote", "Item"}

VARIABLES
    \* the source of the events: "any" (an arbitrary finite stream), or the
    \* parser on a document of lists ("list"), of paragraphs ("para"), of
    \* code blocks ("code"), of every kind of block and span ("doc")
    feed,
    \* term_size::dimensions(): the columns of the terminal
    cols,
    \* the events consumed so far by the for loop, in order
    events,
    \* the tags started and not yet ended, innermost last
    open,
    \* whether every End so far ended the innermost open tag
    wellNested,
    \* marks[i]: the length of the output before event i was handled
    marks,
    \* "run" in the for loop, "done" after the final cleanup, "panic"
    pc,
    \* render_markdown's locals
    code_buffer, code_language, in_code_block, list_stack, link_stack,
    pending_newlines, at_line_start, last_was_list_item,
    \* everything written to stdout by this render
    output,
    \* the length of the output at the last io::stdout().flush() of the render
    flushed,
    \* main's position: "read" (at read_line), "await" (send_to_gemini in
    \* flight), "render" (inside render_markdown), "exit" (after the loop)
    main_pc,
    \* the number of lines read_line has returned
    reads,
    \* what main itself wrote to stdout, one element per print
    console,
    \* what main wrote to stderr, one element per eprintln
    errlog,
    \* the number of calls of render_markdown since the last line was read
    invoked,
    \* what send_to_gemini returned for the last line ("none" before it has)
    answer,
    \* the last renders that returned, oldest first (two at most): the
    \* events, the columns and the output of each
    rendered

ghost == <<feed, cols, events, open, wellNested, marks>>
mainv == <<main_pc, reads, console, errlog, invoked, answer, rendered>>
locals == <<code_buffer, code_language, in_code_block, list_stack, link_stack,
            pending_newlines, at_line_start, last_was_list_item>>
vars == <<ghost, pc, locals, output, flushed, mainv>>

\* let wrap_width = (cols * 3 / 4).min(100)
WrapWidth(c) == Min((c * 3) \div 4, MaxWrapWidth)
wrap_width == WrapWidth(cols)

Top == IF open = <<>> THEN "Root" ELSE open[Len(open)]

\* Whether the parser can yield ev where the document stands (a list has
\* at least one item, a paragraph at least one inline)
Conforms(ev) ==
    CASE ev.kind = "Start" /\ ev.tag \in BlockTags -> Top \in BlockParents
      [] ev.kind = "Start" /\ ev.tag = "Item" -> Top = "List"
      [] ev.kind = "Start" /\ ev.tag \in InlineTags -> Top \in InlineParents
      [] ev.kind = "End" ->
            /\ Top = ev.tag
            /\ ev.tag = "List" => events[Len(events)] = EndEv("Item")
            /\ ev.tag = "Paragraph"
               => events[Len(events)] # StartEv("Paragraph", NoNum, <<>>)
      [] ev.kind = "Text" -> Top \in InlineParents \cup {"CodeBlock"}
      [] ev.kind \in {"Code", "HardBreak", "SoftBreak"} -> Top \in InlineParents
      [] ev.kind \in {"Rule", "Html"} -> Top \in BlockParents
      [] OTHER -> TRUE

\* How many events a feed yields at most
Limit ==
    CASE feed = "any" -> MaxEvents
      [] feed = "main" -> MaxMainEvents
      [] feed = "list" -> MaxListEvents
      [] feed = "para" -> MaxParaEvents
      [] feed = "code" -> MaxCodeEvents
      [] feed = "doc" -> MaxDocEvents

\* The for loop takes ev next: for event in parser
Feeds(ev) ==
    /\ pc = "run"
    /\ Len(events) < Limit
    /\ feed # "any" => Conforms(ev)

\* The bookkeeping of one iteration that handles ev and prints chunk
Consume(ev, chunk) ==
    /\ Feeds(ev)
    /\ events' = Append(events, ev)
    /\ marks' = Append(marks, Len(output))
    /\ output' = output \o chunk
    /\ open' = CASE ev.kind = "Start" -> Append(open, ev.tag)
                 [] ev.kind = "End" /\ Top = ev.tag ->
                        SubSeq(open, 1, Len(open) - 1)
                 [] OTHER -> open
    /\ wellNested' = (wellNested /\ (ev.kind = "End" => Top = ev.tag))
    /\ UNCHANGED <<feed, cols, flushed, mainv>>

(***************************************************************************)
(* The inputs of each feed.                                                *)
(***************************************************************************)
\* HeadingLevel::H1 .. H6
HeadingLevels == 1..6
Levels ==
    CASE feed \in {"any", "doc"} -> {1, 3}
      [] feed = "main" -> {1}
      [] OTHER -> HeadingLevels

\* Start numbers of ordered lists (the parser reads at most nine digits)
StartNums == IF feed \in {"any", "doc"} THEN {NoNum, 3} ELSE {NoNum, 1, 9}

Word2 == <<"a", "b">>
Word3 == <<"c", "d", "e">>
Word5 == <<"f", "g", "h", "i", "j">>
\* The text of a Text event outside code
Texts ==
    CASE feed = "any" -> {Word2 \o <<SP>> \o Word3, <<"a", NL, "b">>, <<NL>>}
      [] feed = "list" -> {Word2}
      [] feed = "para" ->
            {Word3, Word5, Word3 \o <<SP>> \o Word5, Word5 \o <<SP>> \o Word5,
             Word2 \o <<SP>> \o Word2 \o <<SP>> \o Word3}
      [] feed = "code" -> {Word2}
      [] feed = "doc" -> {Word2}
      [] feed = "main" -> {Word3 \o <<SP>> \o Word5}

\* The text of a Text event inside a code block
CodeLine(n) == Repeat("x", n)
CodeTexts ==
    {<<SP, NL>>, Word3 \o <<NL>>, CodeLine(BorderWidth + 2) \o <<NL>>}

\* Language tags of fenced code blocks ("" for a fence without a tag)
Rust == <<"r", "u", "s", "t">>
Unknown == <<"z", "z">>
Langs == {<<>>, Rust, Unknown}
Txt == <<"t", "x", "t">>
TextLang == <<"t", "e", "x", "t">>
\* The languages the highlighter has a syntax for
KnownLangs == {Rust, Txt}

Urls == {<<"u">>}
HtmlTexts == {<<SP>>, <<"<", "b", ">">>, <<"&">>}

\* The widths of the terminal (80 where there is none to ask)
Cols ==
    CASE feed \in {"para", "main"} -> {8, 16}
      [] feed = "code" -> {DefaultCols}
      [] OTHER -> {16}

(***************************************************************************)
(* flush_newlines, render_text, render_code_block.                         *)
(***************************************************************************)
\* flush_newlines(&mut pending, min): what it prints (it leaves pending 0)
FlushNewlines(pending, min_newlines) == Repeat(NL, Max(pending, min_newlines))

\* render_text without its test for an empty stack
InListUnchecked(stack) == TRUE

\* !list_stack.is_empty() of render_text
InList(stack) == stack # <<>>

\* usize subtraction: the difference, or a panic where it would be negative
Underflows(a, b) == a < b

\* let current_indent = ... of render_text
CurrentIndent(stack) ==
    IF InList(stack)
    THEN Repeat(SP, 2 * ((Len(stack) - 1) + 1))
    ELSE <<>>

RECURSIVE RenderLines(_, _, _, _, _)
\* for (i, line) in lines.iter().enumerate() of render_text, from line i on:
\* [out, at_line_start]
RenderLines(lines, i, width, indent, als) ==
    IF i > Len(lines) THEN [out |-> <<>>, at_line_start |-> als]
    ELSE LET lead == IF als /\ indent # <<>> /\ i > 1 THEN indent ELSE <<>>
             effective_width == SaturatingSub(width, Len(indent))
             wrapped_lines == Wrap(lines[i], effective_width)
             body == Concat([j \in 1..Len(wrapped_lines) |->
                         (IF j > 1 THEN <<NL>> \o indent ELSE <<>>)
                         \o wrapped_lines[j]])
             last == i = Len(lines)
             rest == RenderLines(lines, i + 1, width, indent, ~last)
         IN  [out |-> lead \o body \o (IF last THEN <<>> ELSE <<NL>>)
                      \o rest.out,
              at_line_start |-> rest.at_line_start]

\* render_text(text, wrap_options, list_stack, at_line_start):
\* [out, at_line_start, panic]
RenderText(text, width, stack, als) ==
    LET trimmed == TrimEndMatches(TrimStartMatches(text, NL), NL)
        r == RenderLines(Lines(trimmed), 1, width, CurrentIndent(stack), als)
    IN  IF InList(stack) /\ Underflows(Len(stack), 1)
        THEN [out |-> <<>>, at_line_start |-> als, panic |-> TRUE]
        ELSE IF trimmed = <<>>
        THEN [out |-> <<>>, at_line_start |-> als, panic |-> FALSE]
        ELSE [out |-> r.out, at_line_start |-> r.at_line_start,
              panic |-> FALSE]

\* What the highlighter (bat's PrettyPrinter) can answer for a language
Highlight(language) ==
    IF language \in KnownLangs THEN {"Ok", "Err"} ELSE {"Err"}

\* What the highlighter prints on success: its own frame, here one element
BatFrame == <<"<bat>", NL>>

\* the border line of the fallback
Border == Repeat(HBAR, BorderWidth)

\* The fallback of render_code_block
Fallback(code) ==
    LET lines == Lines(code)
    IN  <<"DIM", TOP_LEFT>> \o Border \o <<NL>>
        \o Concat([k \in 1..Len(lines) |->
                      <<"DIM", VBAR, RESET, SP>> \o lines[k] \o <<NL>>])
        \o <<"DIM", BOTTOM_LEFT>> \o Border \o <<RESET, NL>>

\* render_code_block without its test for an empty buffer
RenderCodeBlockOfBlank(code, language, hl) ==
    IF hl = "Ok" THEN BatFrame ELSE Fallback(code)

\* render_code_block(code, language) when the highlighter answers hl
RenderCodeBlock(code, language, hl) ==
    IF IsBlank(code) THEN <<>>
    ELSE IF hl = "Ok" THEN BatFrame
    ELSE Fallback(code)

(***************************************************************************)
(* The state after let mut ... of render_markdown.                         *)
(***************************************************************************)
InitLocals ==
    /\ code_buffer = <<>>
    /\ code_language = TextLang
    /\ in_code_block = FALSE
    /\ list_stack = <<>>
    /\ link_stack = <<>>
    /\ pending_newlines = 0
    /\ at_line_start = TRUE
    /\ last_was_list_item = FALSE

InitFeed(f) ==
    /\ feed = f
    /\ cols \in Cols
    /\ events = <<>>
    /\ open = <<>>
    /\ wellNested = TRUE
    /\ marks = <<>>
    /\ pc = "run"
    /\ InitLocals
    /\ output = <<>>
    /\ flushed = 0
    /\ main_pc = "render"
    /\ reads = 0
    /\ console = <<>>
    /\ errlog = <<>>
    /\ invoked = 1
    /\ answer = "Ok"
    /\ rendered = <<>>

Init == InitFeed("any")
InitList == InitFeed("list")
InitPara == InitFeed("para")
InitCode == InitFeed("code")
InitDoc == InitFeed("doc")

(***************************************************************************)
(* The match arms of the for loop, one action each.                        *)
(***************************************************************************)
\* Tag::Paragraph
StartParagraph ==
    /\ Consume(StartEv("Paragraph", NoNum, <<>>), <<>>)
    /\ pending_newlines' =
           IF ~at_line_start /\ ~last_was_list_item
           THEN Max(pending_newlines, 1)
           ELSE pending_newlines
    /\ UNCHANGED <<pc, code_buffer, code_language, in_code_block, list_stack,
                   link_stack, at_line_start, last_was_list_item>>

\* let header_prefix = match level { ... }
HeaderPrefix(level) == Repeat("#", level) \o <<SP>>

\* Tag::Heading { level, .. }
StartHeading(level) ==
    /\ Consume(StartEv("Heading", level, <<>>),
               FlushNewlines(pending_newlines, 2)
               \o <<"BOLD", "HEADING_COLOR">> \o HeaderPrefix(level))
    /\ pending_newlines' = 0
    /\ at_line_start' = FALSE
    /\ UNCHANGED <<pc, code_buffer, code_language, in_code_block, list_stack,
                   link_stack, last_was_list_item>>

\* Tag::BlockQuote(_)
StartBlockQuote ==
    /\ Consume(StartEv("BlockQuote", NoNum, <<>>),
               FlushNewlines(pending_newlines, 1))
    /\ pending_newlines' = 0
    /\ at_line_start' = TRUE
    /\ UNCHANGED <<pc, code_buffer, code_language, in_code_block, list_stack,
                   link_stack, last_was_list_item>>

\* code_language = match kind { ... }: lang is the tag of a fence, and
\* fenced is FALSE for CodeBlockKind::Indented
CodeLanguage(fenced, lang) == IF fenced /\ lang # <<>> THEN lang ELSE Txt

\* Tag::CodeBlock(kind)
StartCodeBlock(fenced, lang) ==
    /\ Consume(StartEv("CodeBlock", IF fenced THEN 1 ELSE 0, lang),
               FlushNewlines(pending_newlines, 1))
    /\ pending_newlines' = 0
    /\ in_code_block' = TRUE
    /\ code_language' = CodeLanguage(fenced, lang)
    /\ UNCHANGED <<pc, code_buffer, list_stack, link_stack, at_line_start,
                   last_was_list_item>>

\* Tag::List(start_num)
StartList(start_num) ==
    /\ Consume(StartEv("List", start_num, <<>>),
               IF list_stack # <<>> THEN <<>>
               ELSE FlushNewlines(pending_newlines, 1))
    /\ pending_newlines' =
           IF list_stack # <<>> THEN Max(pending_newlines, 1) ELSE 0
    /\ list_stack' = Append(list_stack,
                            [counter |-> start_num,
                             indent_level |-> Len(list_stack)])
    /\ UNCHANGED <<pc, code_buffer, code_language, in_code_block, link_stack,
                   at_line_start, last_was_list_item>>

\* list_stack.last_mut() matches Some((Some(num), _))
HasCounter(stack) == stack # <<>> /\ stack[Len(stack)].counter # NoNum

\* A marker indented by the number of open lists instead of the depth
ItemMarkerDeep(stack) ==
    LET indent == Repeat(SP, 2 * Len(stack))
    IN  IF HasCounter(stack)
        THEN indent \o <<"MAGENTA">>
             \o FormatWidth(stack[Len(stack)].counter, CounterFieldWidth)
             \o <<".", SP, RESET>>
        ELSE indent \o <<"MAGENTA", SP, LIST_ITEM_BULLET, SP, RESET>>

\* The marker of an item: the indent, then the counter or the bullet
ItemMarker(stack) ==
    LET current_level == SaturatingSub(Len(stack), 1)
        indent == Repeat(SP, 2 * current_level)
    IN  IF HasCounter(stack)
        THEN indent \o <<"MAGENTA">>
             \o FormatWidth(stack[Len(stack)].counter, CounterFieldWidth)
             \o <<".", SP, RESET>>
        ELSE indent \o <<"MAGENTA", SP, LIST_ITEM_BULLET, SP, RESET>>

\* A counter that is never advanced
NextCounterStuck(num) == num

\* *num += 1
NextCounter(num) == num + 1

\* Tag::Item
StartItem ==
    /\ Consume(StartEv("Item", NoNum, <<>>),
               (IF ~at_line_start THEN <<NL>> ELSE <<>>)
               \o ItemMarker(list_stack))
    /\ list_stack' =
           IF HasCounter(list_stack)
           THEN [list_stack EXCEPT ![Len(list_stack)].counter =
                                       NextCounter(@)]
           ELSE list_stack
    /\ at_line_start' = FALSE
    /\ last_was_list_item' = TRUE
    /\ pending_newlines' = 0
    /\ UNCHANGED <<pc, code_buffer, code_language, in_code_block, link_stack>>

\* What Tag::Emphasis, Tag::Strong, Tag::Strikethrough print
StyleOf(tag) ==
    CASE tag = "Emphasis" -> <<"ITALIC">>
      [] tag = "Strong" -> <<"BOLD", "YELLOW">>
      [] tag = "Strikethrough" -> <<"STRIKETHROUGH">>

\* Tag::Emphasis, Tag::Strong, Tag::Strikethrough
StartInlineStyle(tag) ==
    /\ Consume(StartEv(tag, NoNum, <<>>), StyleOf(tag))
    /\ UNCHANGED <<pc, locals>>

\* Tag::Link { dest_url, .. }
StartLink(dest_url) ==
    /\ Consume(StartEv("Link", NoNum, dest_url), <<"BLUE", "[">>)
    /\ link_stack' = Append(link_stack, dest_url)
    /\ UNCHANGED <<pc, code_buffer, code_language, in_code_block, list_stack,
                   pending_newlines, at_line_start, last_was_list_item>>

\* Event::Start(_): every other tag (a table, a footnote definition, ...)
StartOther ==
    /\ Consume(StartEv("Other", NoNum, <<>>), <<>>)
    /\ UNCHANGED <<pc, locals>>

\* TagEnd::Heading(_)
EndHeading ==
    /\ Consume(EndEv("Heading"), <<RESET>>)
    /\ pending_newlines' = Max(pending_newlines, 2)
    /\ at_line_start' = TRUE
    /\ UNCHANGED <<pc, code_buffer, code_language, in_code_block, list_stack,
                   link_stack, last_was_list_item>>

\* TagEnd::BlockQuote
EndBlockQuote ==
    /\ Consume(EndEv("BlockQuote"), <<>>)
    /\ pending_newlines' = Max(pending_newlines, 1)
    /\ at_line_start' = TRUE
    /\ UNCHANGED <<pc, code_buffer, code_language, in_code_block, list_stack,
                   link_stack, last_was_list_item>>

\* A Code-Block-End that leaves the language of the block behind
EndCodeBlockKeepsLanguage(hl) ==
    /\ hl \in Highlight(code_language)
    /\ Consume(EndEv("CodeBlock"),
               RenderCodeBlock(code_buffer, code_language, hl))
    /\ in_code_block' = FALSE
    /\ code_buffer' = <<>>
    /\ pending_newlines' = Max(pending_newlines, 1)
    /\ at_line_start' = TRUE
    /\ UNCHANGED <<pc, code_language, list_stack, link_stack,
                   last_was_list_item>>

\* TagEnd::CodeBlock, the highlighter answering hl
EndCodeBlock(hl) ==
    /\ hl \in Highlight(code_language)
    /\ Consume(EndEv("CodeBlock"),
               RenderCodeBlock(code_buffer, code_language, hl))
    /\ in_code_block' = FALSE
    /\ code_buffer' = <<>>
    /\ code_language' = TextLang
    /\ pending_newlines' = Max(pending_newlines, 1)
    /\ at_line_start' = TRUE
    /\ UNCHANGED <<pc, list_stack, link_stack, last_was_list_item>>

\* A pop that removes nothing
PopNothing(stack) == stack

\* Vec::pop: the vector without its last element; an empty one stays empty
Pop(stack) ==
    IF stack = <<>> THEN <<>> ELSE SubSeq(stack, 1, Len(stack) - 1)

\* TagEnd::List(_)
EndList ==
    /\ Consume(EndEv("List"), <<>>)
    /\ list_stack' = Pop(list_stack)
    /\ pending_newlines' =
           IF list_stack' = <<>> THEN Max(pending_newlines, 1)
           ELSE pending_newlines
    /\ last_was_list_item' =
           IF list_stack' = <<>> THEN FALSE ELSE last_was_list_item
    /\ at_line_start' = TRUE
    /\ UNCHANGED <<pc, code_buffer, code_language, in_code_block, link_stack>>

\* TagEnd::Item
EndItem ==
    /\ Consume(EndEv("Item"), <<>>)
    /\ UNCHANGED <<pc, locals>>

\* An end of a span that turns the style of the enclosing span back on
EndInlineStyleRestoring(tag) ==
    /\ Consume(EndEv(tag),
               <<RESET>> \o
               (IF Len(open) > 1
                   /\ open[Len(open) - 1]
                          \in {"Emphasis", "Strong", "Strikethrough"}
                THEN StyleOf(open[Len(open) - 1])
                ELSE <<>>))
    /\ UNCHANGED <<pc, locals>>

\* TagEnd::Emphasis | TagEnd::Strong | TagEnd::Strikethrough
EndInlineStyle(tag) ==
    /\ Consume(EndEv(tag), <<RESET>>)
    /\ UNCHANGED <<pc, locals>>

\* A link end that takes the URL of an empty stack to be the empty string
LinkCloseDefaultUrl(stack) ==
    <<"]", "(", "BLUE">>
    \o (IF stack # <<>> THEN stack[Len(stack)] ELSE <<>>)
    \o <<RESET, ")">>

\* A link end that leaves the link colour on after the URL
LinkCloseNoReset(stack) ==
    IF stack # <<>>
    THEN <<"]", "(", "BLUE">> \o stack[Len(stack)] \o <<")">>
    ELSE <<"]">>

\* What TagEnd::Link prints
LinkClose(stack) ==
    IF stack # <<>>
    THEN <<"]", "(", "BLUE">> \o stack[Len(stack)] \o <<RESET, ")">>
    ELSE <<"]">>

\* TagEnd::Link
EndLink ==
    /\ Consume(EndEv("Link"), LinkClose(link_stack))
    /\ link_stack' = Pop(link_stack)
    /\ UNCHANGED <<pc, code_buffer, code_language, in_code_block, list_stack,
                   pending_newlines, at_line_start, last_was_list_item>>

\* Event::End(_): every other end (TagEnd::Paragraph among them)
EndOther(tag) ==
    /\ Consume(EndEv(tag), <<>>)
    /\ UNCHANGED <<pc, locals>>

\* Event::Text(text) in a code block
TextInCode(text) ==
    /\ in_code_block
    /\ Consume(Ev("Text", "", NoNum, text), <<>>)
    /\ code_buffer' = code_buffer \o text
    /\ UNCHANGED <<pc, code_language, in_code_block, list_stack, link_stack,
                   pending_newlines, at_line_start, last_was_list_item>>

\* Event::Text(text) outside a code block
TextEvent(text) ==
    LET r == RenderText(text, wrap_width, list_stack, at_line_start)
    IN  /\ ~in_code_block
        /\ Consume(Ev("Text", "", NoNum, text),
                   FlushNewlines(pending_newlines, 0) \o r.out)
        /\ pending_newlines' = 0
        /\ at_line_start' = r.at_line_start
        /\ pc' = IF r.panic THEN "panic" ELSE pc
        /\ UNCHANGED <<code_buffer, code_language, in_code_block, list_stack,
                       link_stack, last_was_list_item>>

\* Event::Code(text)
CodeEvent(text) ==
    /\ Consume(Ev("Code", "", NoNum, text),
               <<"KEYWORD_COLOR", BACKTICK>> \o text \o <<BACKTICK, RESET>>)
    /\ at_line_start' = FALSE
    /\ UNCHANGED <<pc, code_buffer, code_language, in_code_block, list_stack,
                   link_stack, pending_newlines, last_was_list_item>>

\* Event::HardBreak
HardBreak ==
    /\ Consume(Ev("HardBreak", "", NoNum, <<>>), <<NL>>)
    /\ at_line_start' = TRUE
    /\ UNCHANGED <<pc, code_buffer, code_language, in_code_block, list_stack,
                   link_stack, pending_newlines, last_was_list_item>>

\* Event::SoftBreak
SoftBreak ==
    /\ Consume(Ev("SoftBreak", "", NoNum, <<>>),
               IF ~at_line_start THEN <<SP>> ELSE <<>>)
    /\ UNCHANGED <<pc, locals>>

\* Event::Rule
Rule ==
    /\ Consume(Ev("Rule", "", NoNum, <<>>),
               FlushNewlines(pending_newlines, 1)
               \o <<"DIM">> \o Repeat(HBAR, Min(wrap_width, RuleWidth))
               \o <<RESET, NL>>)
    /\ pending_newlines' = 1
    /\ at_line_start' = TRUE
    /\ UNCHANGED <<pc, code_buffer, code_language, in_code_block, list_stack,
                   link_stack, last_was_list_item>>

\* !html.trim().is_empty() && !html.starts_with('<')
HtmlShown(html) == ~IsBlank(html) /\ ~(html # <<>> /\ Head(html) = "<")

\* Event::Html(html)
Html(html) ==
    /\ Consume(Ev("Html", "", NoNum, html),
               IF HtmlShown(html)
               THEN FlushNewlines(pending_newlines, 0) \o html
               ELSE <<>>)
    /\ pending_newlines' = IF HtmlShown(html) THEN 0 ELSE pending_newlines
    /\ at_line_start' = IF HtmlShown(html) THEN FALSE ELSE at_line_start
    /\ UNCHANGED <<pc, code_buffer, code_language, in_code_block, list_stack,
                   link_stack, last_was_list_item>>

\* every other event (a footnote reference, a task list marker, ...)
OtherEvent ==
    /\ Consume(Ev("Other", "", NoNum, <<>>), <<>>)
    /\ UNCHANGED <<pc, locals>>

\* A final cleanup that ends the output with a line break of its own
\* whatever the flag says
FinishAlwaysBreaks ==
    /\ pc = "run"
    /\ feed # "any" => open = <<>>
    /\ pc' = "done"
    /\ output' = output \o <<NL>>
    /\ flushed' = Len(output')
    /\ UNCHANGED <<ghost, locals, mainv>>

\* The final cleanup, once the parser has no more events; the parser ends
\* a document only with every tag closed
Finish ==
    /\ pc = "run"
    /\ feed # "any" => open = <<>>
    /\ pc' = "done"
    /\ output' = output \o (IF ~at_line_start THEN <<NL>> ELSE <<>>)
    /\ flushed' = Len(output')
    /\ UNCHANGED <<ghost, locals, mainv>>

(***************************************************************************)
(* The command loop of main, which calls render_markdown.                  *)
(***************************************************************************)
RECURSIVE Trim(_)
\* str::trim
Trim(s) ==
    IF s # <<>> /\ IsWhitespace(Head(s)) THEN Trim(Tail(s))
    ELSE IF s # <<>> /\ IsWhitespace(s[Len(s)])
         THEN Trim(SubSeq(s, 1, Len(s) - 1))
    ELSE s

Quit == <<"q", "u", "i", "t">>
Exit == <<"e", "x", "i", "t">>
Clear == <<"c", "l", "e", "a", "r">>
Help == <<"h", "e", "l", "p">>
\* The lines read_line can return, their line break included
InputLines ==
    {<<NL>>, <<SP, NL>>, Quit \o <<NL>>, <<SP>> \o Exit \o <<NL>>,
     Clear \o <<NL>>, Help \o <<SP, NL>>, <<"h", "i", NL>>}

\* What send_to_gemini can return: the text of the first part of the first
\* candidate, or an error: one that ? passes on from the request or the
\* decoding of the body, that of a status of failure, that of a body
\* without content
SendToGemini == {"Ok", "RequestErr", "ApiErr", "NoContent"}

\* An entry of render_markdown that keeps the newline bookkeeping of the
\* render before
RenderEntryKeepsFlags ==
    /\ pc' = "run"
    /\ cols' \in Cols
    /\ code_buffer' = <<>>
    /\ code_language' = TextLang
    /\ in_code_block' = FALSE
    /\ list_stack' = <<>>
    /\ link_stack' = <<>>
    /\ output' = <<>>
    /\ flushed' = 0
    /\ events' = <<>>
    /\ open' = <<>>
    /\ wellNested' = TRUE
    /\ marks' = <<>>
    /\ UNCHANGED <<feed, pending_newlines, at_line_start, last_was_list_item>>

\* The entry of render_markdown: its locals are created anew, and the
\* parser is about to yield the events of the response
RenderEntry ==
    /\ pc' = "run"
    /\ cols' \in Cols
    /\ code_buffer' = <<>>
    /\ code_language' = TextLang
    /\ in_code_block' = FALSE
    /\ list_stack' = <<>>
    /\ link_stack' = <<>>
    /\ pending_newlines' = 0
    /\ at_line_start' = TRUE
    /\ last_was_list_item' = FALSE
    /\ output' = <<>>
    /\ flushed' = 0
    /\ events' = <<>>
    /\ open' = <<>>
    /\ wellNested' = TRUE
    /\ marks' = <<>>
    /\ UNCHANGED feed

\* One turn of the loop up to the match on the trimmed input: the prompt,
\* read_line returning line, and every arm but the call of send_to_gemini
ReadLine(line) ==
    LET input == Trim(line)
    IN  /\ main_pc = "read"
        /\ reads < MaxReads
        /\ reads' = reads + 1
        /\ invoked' = 0
        /\ answer' = "none"
        /\ console' = console \o <<"PROMPT">> \o
               (CASE input = <<>> -> <<>>
                  [] input \in {Quit, Exit} -> <<"GOODBYE">>
                  [] input = Clear -> <<"CLEAR_SCREEN">>
                  [] input = Help -> <<"HELP">>
                  [] OTHER -> <<"THINKING">>)
        /\ main_pc' = (CASE input \in {Quit, Exit} -> "exit"
                         [] input \in {<<>>, Clear, Help} -> "read"
                         [] OTHER -> "await")
        /\ UNCHANGED <<ghost, pc, locals, output, flushed, errlog, rendered>>

\* read_line fails: the message on stderr, and the loop is left
ReadError ==
    /\ main_pc = "read"
    /\ reads < MaxReads
    /\ reads' = reads + 1
    /\ console' = console \o <<"PROMPT">>
    /\ errlog' = Append(errlog, "Error reading input.")
    /\ main_pc' = "exit"
    /\ UNCHANGED <<ghost, pc, locals, output, flushed, invoked, answer,
                   rendered>>

\* send_to_gemini(...).await returns Ok(response): the header, then the call
\* of render_markdown(&response)
AnswerOk ==
    /\ main_pc = "await"
    /\ answer' = "Ok"
    /\ console' = console \o <<"CLEAR_THINKING", "GEMINI_HEADER">>
    /\ main_pc' = "render"
    /\ invoked' = invoked + 1
    /\ RenderEntry
    /\ rendered' = IF Len(rendered) > 1 THEN Tail(rendered) ELSE rendered
    /\ UNCHANGED <<reads, errlog>>

\* An Err arm that renders the text of the error as if it were a response
AnswerErrRendered(e) ==
    /\ main_pc = "await"
    /\ e # "Ok"
    /\ answer' = e
    /\ console' = console \o <<"CLEAR_THINKING">>
    /\ errlog' = Append(errlog, "Error: " \o e)
    /\ main_pc' = "render"
    /\ invoked' = invoked + 1
    /\ RenderEntry
    /\ UNCHANGED <<reads, rendered>>

\* send_to_gemini(...).await returns Err(e): the message on stderr, and the
\* next turn of the loop
AnswerErr(e) ==
    /\ main_pc = "await"
    /\ e # "Ok"
    /\ answer' = e
    /\ console' = console \o <<"CLEAR_THINKING">>
    /\ errlog' = Append(errlog, "Error: " \o e)
    /\ main_pc' = "read"
    /\ UNCHANGED <<ghost, pc, locals, output, flushed, reads, invoked,
                   rendered>>

\* render_markdown returns to the loop, which turns to the next prompt
Return ==
    /\ main_pc = "render"
    /\ pc = "done"
    /\ main_pc' = "read"
    /\ rendered' = Append(rendered,
                          [events |-> events, cols |-> cols, out |-> output])
    /\ UNCHANGED <<ghost, pc, locals, output, flushed, reads, console, errlog,
                   invoked, answer>>

(***************************************************************************)
(* The specifications.                                                     *)
(***************************************************************************)
\* Any finite stream of events, well-formed or not
Next ==
    \/ StartParagraph
    \/ \E level \in Levels : StartHeading(level)
    \/ StartBlockQuote
    \/ \E lang \in Langs : StartCodeBlock(TRUE, lang)
    \/ StartCodeBlock(FALSE, <<>>)
    \/ \E n \in StartNums : StartList(n)
    \/ StartItem
    \/ \E tag \in {"Emphasis", "Strong", "Strikethrough"} : StartInlineStyle(tag)
    \/ \E url \in Urls : StartLink(url)
    \/ StartOther
    \/ EndHeading
    \/ EndBlockQuote
    \/ \E hl \in {"Ok", "Err"} : EndCodeBlock(hl)
    \/ EndList
    \/ EndItem
    \/ \E tag \in {"Emphasis", "Strong", "Strikethrough"} : EndInlineStyle(tag)
    \/ EndLink
    \/ \E tag \in {"Paragraph", "Other"} : EndOther(tag)
    \/ \E text \in Texts : TextInCode(text)
    \/ \E text \in Texts : TextEvent(text)
    \/ \E text \in {Word2} : CodeEvent(text)
    \/ HardBreak
    \/ SoftBreak
    \/ Rule
    \/ \E html \in HtmlTexts : Html(html)
    \/ OtherEvent
    \/ Finish

Spec == Init /\ [][Next]_vars

\* The parser on a document of (nested) lists, the items holding bare text
\* (a tight list) or paragraphs (a loose one)
NextList ==
    \/ \E n \in StartNums : StartList(n)
    \/ StartItem
    \/ StartParagraph
    \/ EndOther("Paragraph")
    \/ \E text \in Texts : TextEvent(text)
    \/ EndItem
    \/ EndList
    \/ Finish

SpecList == InitList /\ [][NextList]_vars

\* The parser on a document of paragraphs of text and soft breaks
NextPara ==
    \/ StartParagraph
    \/ \E text \in Texts : TextEvent(text)
    \/ SoftBreak
    \/ EndOther("Paragraph")
    \/ Finish

SpecPara == InitPara /\ [][NextPara]_vars

\* The parser on a document of code blocks
NextCode ==
    \/ \E lang \in Langs : StartCodeBlock(TRUE, lang)
    \/ StartCodeBlock(FALSE, <<>>)
    \/ \E text \in CodeTexts : TextInCode(text)
    \/ \E hl \in {"Ok", "Err"} : EndCodeBlock(hl)
    \/ Finish

SpecCode == InitCode /\ [][NextCode]_vars

\* The parser on a document of every kind of block and span
NextDoc ==
    \/ StartParagraph
    \/ \E level \in Levels : StartHeading(level)
    \/ StartBlockQuote
    \/ \E lang \in {Rust, Unknown} : StartCodeBlock(TRUE, lang)
    \/ \E n \in StartNums : StartList(n)
    \/ StartItem
    \/ \E tag \in {"Emphasis", "Strong", "Strikethrough"} : StartInlineStyle(tag)
    \/ \E url \in Urls : StartLink(url)
    \/ EndHeading
    \/ EndBlockQuote
    \/ \E hl \in {"Ok", "Err"} : EndCodeBlock(hl)
    \/ EndList
    \/ EndItem
    \/ \E tag \in {"Emphasis", "Strong", "Strikethrough"} : EndInlineStyle(tag)
    \/ EndLink
    \/ EndOther("Paragraph")
    \/ \E text \in {Word3 \o <<NL>>} : TextInCode(text)
    \/ \E text \in Texts : TextEvent(text)
    \/ \E text \in {Word2} : CodeEvent(text)
    \/ HardBreak
    \/ SoftBreak
    \/ Rule
    \/ Finish

SpecDoc == InitDoc /\ [][NextDoc]_vars

\* The program: main before its first prompt, no render entered yet
InitMain ==
    /\ feed = "main"
    /\ cols = DefaultCols
    /\ events = <<>>
    /\ open = <<>>
    /\ wellNested = TRUE
    /\ marks = <<>>
    /\ pc = "idle"
    /\ InitLocals
    /\ output = <<>>
    /\ flushed = 0
    /\ main_pc = "read"
    /\ reads = 0
    /\ console = <<>>
    /\ errlog = <<>>
    /\ invoked = 0
    /\ answer = "none"
    /\ rendered = <<>>

\* The command loop, and the parser on each response: headings and
\* paragraphs of text
NextMain ==
    \/ \E line \in InputLines : ReadLine(line)
    \/ ReadError
    \/ AnswerOk
    \/ \E e \in SendToGemini : AnswerErr(e)
    \/ Return
    \/ StartParagraph
    \/ \E level \in Levels : StartHeading(level)
    \/ EndHeading
    \/ EndOther("Paragraph")
    \/ \E text \in Texts : TextEvent(text)
    \/ Finish

SpecMain == InitMain /\ [][NextMain]_vars

(***************************************************************************)
(* Reading the history: the events consumed and what each one printed.     *)
(***************************************************************************)
NEvents == Len(events)

\* What event i printed
Chunk(i) ==
    SubSeq(output, marks[i] + 1,
           IF i < NEvents THEN marks[i + 1]
           ELSE IF pc = "done" /\ output # <<>> /\ ~at_line_start
                THEN Len(output) - 1
                ELSE Len(output))

IsStart(i, tag) == events[i].kind = "Start" /\ events[i].tag = tag
IsEnd(i, tag) == events[i].kind = "End" /\ events[i].tag = tag

RECURSIVE Opener(_, _)
\* The index of the Start event that is innermost open after events 1..i
\* with d more Ends to match (0: none is open)
Opener(i, d) ==
    IF i = 0 THEN 0
    ELSE IF events[i].kind = "End" THEN Opener(i - 1, d + 1)
    ELSE IF events[i].kind = "Start"
         THEN (IF d = 0 THEN i ELSE Opener(i - 1, d - 1))
    ELSE Opener(i - 1, d)

\* The Start event inside which event i arrives (0: at the root)
Parent(i) == Opener(i - 1, 0)

\* The number of lists open when event i arrives
RECURSIVE ListsAround(_)
ListsAround(i) ==
    IF Parent(i) = 0 THEN 0
    ELSE (IF IsStart(Parent(i), "List") THEN 1 ELSE 0) + ListsAround(Parent(i))

\* The Item-Starts of the list started by event l, up to event i
ItemsOf(l, i) == {j \in (l + 1)..i : IsStart(j, "Item") /\ Parent(j) = l}

\* The characters of a chunk before and after its first occurrence of c
Before(chunk, c) ==
    IF \E k \in 1..Len(chunk) : chunk[k] = c
    THEN SubSeq(chunk, 1, (CHOOSE k \in 1..Len(chunk) :
                    chunk[k] = c /\ \A j \in 1..(k - 1) : chunk[j] # c) - 1)
    ELSE chunk
After(chunk, c) == SubSeq(chunk, Len(Before(chunk, c)) + 2, Len(chunk))

\* The counter an item marker shows: the digits between MAGENTA and "."
PrintedCounter(chunk) ==
    ParseDigits(TrimStartMatches(Before(After(chunk, "MAGENTA"), "."), SP))

\* The indent of an item marker: what precedes MAGENTA on the marker's line
MarkerIndent(chunk) == TrimStartMatches(Before(chunk, "MAGENTA"), NL)

(***************************************************************************)
(* C1: in a well-nested stream, the k-th Item-Start of an ordered list     *)
(* started at N prints the counter N + k - 1, whatever lists were opened   *)
(* and closed between its items.                                           *)
(***************************************************************************)
C1_CounterIsStartPlusIndex ==
    wellNested =>
        \A i \in 1..NEvents :
            (/\ IsStart(i, "Item")
             /\ Parent(i) # 0
             /\ IsStart(Parent(i), "List")
             /\ events[Parent(i)].num # NoNum)
            => PrintedCounter(Chunk(i)) =
                   events[Parent(i)].num + Cardinality(ItemsOf(Parent(i), i)) - 1

\* The second item of a list started at 9, after a nested list with an item
\* of its own was opened and closed, has been printed
C1_Witness ==
    \E i \in 1..NEvents :
        /\ IsStart(i, "Item")
        /\ Parent(i) # 0
        /\ IsStart(Parent(i), "List")
        /\ events[Parent(i)].num = 9
        /\ Cardinality(ItemsOf(Parent(i), i)) = 2
        /\ \E l \in (Parent(i) + 1)..(i - 1) :
               IsStart(l, "List") /\ ItemsOf(l, i) # {}
        /\ PrintedCounter(Chunk(i)) = 10

(***************************************************************************)
(* C2: the marker of an item of a list nested at depth d (the outermost    *)
(* list has d = 0) is preceded on its line by exactly 2 * d spaces.        *)
(***************************************************************************)
C2_IndentIsTwicePerDepth ==
    wellNested =>
        \A i \in 1..NEvents :
            (IsStart(i, "Item") /\ Parent(i) # 0 /\ IsStart(Parent(i), "List"))
            => MarkerIndent(Chunk(i)) = Repeat(SP, 2 * (ListsAround(i) - 1))

\* An item of a list inside a list inside a list has been printed, with
\* four spaces before its marker
C2_Witness ==
    \E i \in 1..NEvents :
        /\ IsStart(i, "Item")
        /\ ListsAround(i) = 3
        /\ MarkerIndent(Chunk(i)) = <<SP, SP, SP, SP>>

(***************************************************************************)
(* Newlines between blocks.                                                *)
(***************************************************************************)
RECURSIVE TrailingNewlines(_)
\* The number of line breaks that end a visible text
TrailingNewlines(s) ==
    IF s # <<>> /\ s[Len(s)] = NL
    THEN 1 + TrailingNewlines(SubSeq(s, 1, Len(s) - 1))
    ELSE 0

RECURSIVE LeadingNewlines(_)
\* The number of line breaks that begin a visible text
LeadingNewlines(s) ==
    IF s # <<>> /\ Head(s) = NL THEN 1 + LeadingNewlines(Tail(s)) ELSE 0

\* The last event consumed, and whether one was
LastEvent == events[NEvents]

\* The event ends a block and leaves a request for newlines behind
EndsBlock(ev, stack) ==
    \/ ev.kind = "End" /\ ev.tag \in {"Heading", "BlockQuote", "CodeBlock"}
    \/ ev.kind = "End" /\ ev.tag = "List" /\ stack = <<>>
    \/ ev.kind = "Rule"

\* The minimum of newlines the event asks flush_newlines for as it starts
\* a block (0: it starts none)
StartMin(ev, stack) ==
    CASE ev.kind = "Start" /\ ev.tag = "Heading" -> 2
      [] ev.kind = "Start" /\ ev.tag \in {"BlockQuote", "CodeBlock"} -> 1
      [] ev.kind = "Start" /\ ev.tag = "List" /\ stack = <<>> -> 1
      [] ev.kind = "Rule" -> 1
      [] OTHER -> 0

\* What the step from this state to the next one printed
Printed == SubSeq(output', Len(output) + 1, Len(output'))

(***************************************************************************)
(* C3: when a block has ended leaving p pending newlines and the next      *)
(* event starts a block asking for a minimum of m, exactly max(p, m) line  *)
(* breaks stand between the content of the first and that of the second.   *)
(***************************************************************************)
C3_ExactlyMaxNewlinesBetweenBlocks ==
    [][(/\ NEvents >= 1
        /\ NEvents' = NEvents + 1
        /\ EndsBlock(LastEvent, list_stack)
        /\ StartMin(LastEvent', list_stack) > 0
        /\ \E k \in 1..Len(output) : output[k] \notin Escapes \cup {NL})
       => TrailingNewlines(Visible(output)) + LeadingNewlines(Printed)
              = Max(pending_newlines, StartMin(LastEvent', list_stack))]_vars

\* The event is one of those that write visible content of their own:
\* text, inline code, a link bracket, a heading prefix, a rule, a code
\* frame, raw markup
WritesContent(ev) ==
    \/ ev.kind \in {"Text", "Code", "Rule", "Html"}
    \/ ev.kind = "Start" /\ ev.tag \in {"Link", "Heading"}
    \/ ev.kind = "End" /\ ev.tag = "CodeBlock"

\* A rule and a code frame leave a request of their own behind them
RequestsAfter(ev) ==
    ev.kind = "Rule" \/ (ev.kind = "End" /\ ev.tag = "CodeBlock")

(***************************************************************************)
(* C4: an event that writes visible content while newlines are pending     *)
(* writes the pending newlines first, and none is pending afterwards       *)
(* (but for the request a rule or a code frame leaves behind itself).      *)
(***************************************************************************)
C4_PendingFlushedBeforeContent ==
    [][(/\ NEvents' = NEvents + 1
        /\ WritesContent(LastEvent')
        /\ \E k \in 1..Len(Printed) : Printed[k] \notin Escapes \cup {NL}
        /\ pending_newlines > 0)
       => /\ LeadingNewlines(Printed) >= pending_newlines
          /\ ~RequestsAfter(LastEvent') => pending_newlines' = 0]_vars

(***************************************************************************)
(* Malformed streams.                                                      *)
(***************************************************************************)
RECURSIVE LinksOpen(_)
\* The length of the link stack after events 1..i
LinksOpen(i) ==
    IF i = 0 THEN 0
    ELSE IF IsStart(i, "Link") THEN LinksOpen(i - 1) + 1
    ELSE IF IsEnd(i, "Link") THEN SaturatingSub(LinksOpen(i - 1), 1)
    ELSE LinksOpen(i - 1)

RECURSIVE ListsOpen(_)
\* The length of the list stack after events 1..i
ListsOpen(i) ==
    IF i = 0 THEN 0
    ELSE IF IsStart(i, "List") THEN ListsOpen(i - 1) + 1
    ELSE IF IsEnd(i, "List") THEN SaturatingSub(ListsOpen(i - 1), 1)
    ELSE ListsOpen(i - 1)

(***************************************************************************)
(* C5: a Link-End handled while the link stack is empty prints the one     *)
(* character "]", leaves the link stack empty, and the loop goes on.       *)
(***************************************************************************)
C5_UnbalancedLinkEndPrintsBracket ==
    [][(/\ NEvents' = NEvents + 1
        /\ LastEvent' = EndEv("Link")
        /\ link_stack = <<>>)
       => /\ Printed = <<"]">>
          /\ link_stack' = <<>>
          /\ pc' = "run"]_vars

\* A Link-End arrived with no link open, printed "]", and the event after
\* it was handled and printed its text
C5_Witness ==
    \E i \in 1..(NEvents - 1) :
        /\ IsEnd(i, "Link")
        /\ LinksOpen(i - 1) = 0
        /\ Chunk(i) = <<"]">>
        /\ events[i + 1].kind = "Text"
        /\ Chunk(i + 1) # <<>>
        /\ link_stack = <<>>

(***************************************************************************)
(* C6: whatever the stream, malformed ones included, every step of the     *)
(* loop handles exactly the next event and none faults; a List-End on an   *)
(* empty list stack leaves it empty; the final cleanup can always follow.  *)
(***************************************************************************)
C6_NoFaultOnAnyStream ==
    [][/\ pc' # "panic"
       /\ pc = "run" => ENABLED Finish
       /\ pc' = "run" => /\ NEvents' = NEvents + 1
                         /\ SubSeq(events', 1, NEvents) = events
       /\ (NEvents' = NEvents + 1 /\ LastEvent' = EndEv("List")
           /\ list_stack = <<>>) => list_stack' = <<>>]_vars

\* A render that met a List-End on an empty list stack and then text
\* outside any list (or an item outside any list, a Link-End with no link,
\* a Code-Block-End with no start) has reached its terminal state
C6_Witness ==
    /\ pc = "done"
    /\ NEvents = MaxEvents
    /\ \E i \in 1..NEvents :
           \/ IsEnd(i, "List") /\ ListsOpen(i - 1) = 0
                /\ i < NEvents /\ events[i + 1].kind = "Text"
           \/ IsStart(i, "Item") /\ ListsOpen(i - 1) = 0
           \/ IsEnd(i, "Link") /\ LinksOpen(i - 1) = 0
           \/ IsEnd(i, "CodeBlock") /\ Parent(i) = 0
    /\ list_stack = <<>>

(***************************************************************************)
(* Styles.                                                                 *)
(***************************************************************************)
RECURSIVE StyleActive(_)
\* Whether a style is left on at the end of an output: its last escape
\* sequence starts a style
StyleActive(out) ==
    IF out = <<>> THEN FALSE
    ELSE IF out[Len(out)] = RESET THEN FALSE
    ELSE IF out[Len(out)] \in StyleStarts THEN TRUE
    ELSE StyleActive(SubSeq(out, 1, Len(out) - 1))

(***************************************************************************)
(* C7: when the render of a well-nested stream returns, every escape that  *)
(* started a style has been followed by a reset: no style is left on.      *)
(***************************************************************************)
C7_StylesBalancedAtReturn ==
    (pc = "done" /\ wellNested /\ open = <<>>) => ~StyleActive(output)

\* A render has returned after a heading with a strong span inside, both
\* of which left their style starts in the output
C7_Witness ==
    /\ pc = "done"
    /\ wellNested
    /\ open = <<>>
    /\ \E k \in 1..Len(output) : output[k] = "HEADING_COLOR"
    /\ \E k \in 1..Len(output) : output[k] = "YELLOW"
    /\ ~StyleActive(output)

(***************************************************************************)
(* Paragraphs.                                                             *)
(***************************************************************************)
\* The words of a string: its maximal runs of non-spaces
RECURSIVE WordsOf(_)
WordsOf(s) ==
    LET t == TrimStartMatches(s, SP)
    IN  IF t = <<>> THEN <<>>
        ELSE <<Before(t, SP)>>
             \o WordsOf(SubSeq(t, Len(Before(t, SP)) + 1, Len(t)))

RECURSIVE JoinWords(_)
\* Words joined by single spaces
JoinWords(ws) ==
    IF ws = <<>> THEN <<>>
    ELSE IF Len(ws) = 1 THEN ws[1]
    ELSE ws[1] \o <<SP>> \o JoinWords(Tail(ws))

\* The stream is one paragraph of text runs with a soft break between every
\* two of them, and nothing else
OneSoftParagraph ==
    /\ NEvents >= 3
    /\ IsStart(1, "Paragraph")
    /\ IsEnd(NEvents, "Paragraph")
    /\ \A i \in 2..(NEvents - 1) :
           events[i].kind = IF i % 2 = 0 THEN "Text" ELSE "SoftBreak"
    /\ events[NEvents - 1].kind = "Text"

\* The words of the paragraph, in order
ParagraphWords ==
    Concat([i \in 1..NEvents |->
               IF events[i].kind = "Text" THEN WordsOf(events[i].txt)
               ELSE <<>>])

\* The lines of the rendered output, the escape sequences stripped
OutputLines == Lines(Visible(output))

(***************************************************************************)
(* C8: the output of a paragraph of text runs separated by soft breaks     *)
(* (every word fitting the column budget) is, without its escape           *)
(* sequences, the words of the paragraph in order, single spaces between   *)
(* those of a line, no line wider than the budget and no word split.       *)
(***************************************************************************)
C8_ParagraphWrappedWithinBudget ==
    (/\ pc = "done"
     /\ OneSoftParagraph
     /\ \A k \in 1..Len(ParagraphWords) : Len(ParagraphWords[k]) <= wrap_width)
    => /\ Concat([k \in 1..Len(OutputLines) |-> WordsOf(OutputLines[k])])
              = ParagraphWords
       /\ \A k \in 1..Len(OutputLines) :
              /\ OutputLines[k] = JoinWords(WordsOf(OutputLines[k]))
              /\ Len(OutputLines[k]) <= wrap_width

(***************************************************************************)
(* Code blocks.                                                            *)
(***************************************************************************)
\* The code buffer when Code-Block-End i arrives: the text events since the
\* start of the block
CodeOf(i) ==
    Concat([j \in 1..(i - 1) |->
               IF j > Parent(i) /\ events[j].kind = "Text" THEN events[j].txt
               ELSE <<>>])

\* The language tag of the block that Code-Block-End i ends
LangOf(i) == CodeLanguage(events[Parent(i)].num = 1, events[Parent(i)].txt)

\* The chunk is a frame drawn by the fallback
IsFallbackFrame(chunk) == Len(chunk) >= 2 /\ chunk[2] = TOP_LEFT

\* The width of a frame: that of its top border
FrameWidth(chunk) == Len(Lines(Visible(chunk))[1])

\* The width of the longest line of a code
RECURSIVE LongestLine(_)
LongestLine(lines) ==
    IF lines = <<>> THEN 0
    ELSE Max(Len(Head(lines)), LongestLine(Tail(lines)))

(***************************************************************************)
(* C9: the frame of a non-empty code block is at least 40 columns wide, at *)
(* least as wide as the longest line of the code, and at least as wide as  *)
(* the language tag plus 4 (stated of the blocks in a language the         *)
(* highlighter does not know, whose frame this program draws itself).      *)
(***************************************************************************)
C9_FrameWidthCoversContent ==
    \A i \in 1..NEvents :
        (/\ IsEnd(i, "CodeBlock")
         /\ Parent(i) # 0
         /\ IsStart(Parent(i), "CodeBlock")
         /\ ~IsBlank(CodeOf(i))
         /\ LangOf(i) \notin KnownLangs
         /\ IsFallbackFrame(Chunk(i)))
        => /\ FrameWidth(Chunk(i)) >= 40
           /\ FrameWidth(Chunk(i)) >= LongestLine(Lines(CodeOf(i)))
           /\ FrameWidth(Chunk(i)) >= Len(LangOf(i)) + 4

(***************************************************************************)
(* C10: when the highlighter fails for the language of a code block (as it *)
(* does for a language it does not know), Code-Block-End prints the        *)
(* fallback: a top border, every line of the code behind a bar, a bottom   *)
(* border; the loop goes on, out of the code block; and for a buffer that  *)
(* is empty once trimmed, Code-Block-End prints nothing.                   *)
(***************************************************************************)
C10_FallbackOnHighlightFailure ==
    \A i \in 1..NEvents :
        (IsEnd(i, "CodeBlock") /\ Parent(i) # 0
         /\ IsStart(Parent(i), "CodeBlock"))
        => LET shown == Lines(Visible(Chunk(i)))
               code  == Lines(CodeOf(i))
           IN  /\ pc # "panic"
               /\ i = NEvents => ~in_code_block
               /\ IsBlank(CodeOf(i)) => Chunk(i) = <<>>
               /\ (~IsBlank(CodeOf(i))
                   /\ (LangOf(i) \notin KnownLangs \/ Chunk(i) # BatFrame))
                  => /\ Len(shown) = Len(code) + 2
                     /\ shown[1] = <<TOP_LEFT>> \o Repeat(HBAR, BorderWidth)
                     /\ \A k \in 1..Len(code) :
                            shown[k + 1] = <<VBAR, SP>> \o code[k]
                     /\ shown[Len(shown)]
                            = <<BOTTOM_LEFT>> \o Repeat(HBAR, BorderWidth)

\* A code block whose buffer is blank was ended and printed nothing, and a
\* later block in a language the highlighter does not know was drawn by the
\* fallback, a bar before each of its lines
C10_Witness ==
    \E i, j \in 1..NEvents :
        /\ i < j
        /\ IsEnd(i, "CodeBlock")
        /\ IsBlank(CodeOf(i))
        /\ Chunk(i) = <<>>
        /\ IsEnd(j, "CodeBlock")
        /\ LangOf(j) = Unknown
        /\ ~IsBlank(CodeOf(j))
        /\ IsFallbackFrame(Chunk(j))
        /\ \E k \in 1..Len(Chunk(j)) : Chunk(j)[k] = VBAR

(***************************************************************************)
(* The end of a render, and renders in the command loop.                   *)
(***************************************************************************)
(***************************************************************************)
(* C11: when the events are exhausted, the render writes one line break if *)
(* at_line_start is false and nothing if it is true, flushes stdout (all   *)
(* of the output is then flushed), and writes nothing afterwards.          *)
(***************************************************************************)
C11_FinalBreakThenFlush ==
    [][/\ (pc = "run" /\ pc' = "done")
          => /\ output' = output \o (IF at_line_start THEN <<>> ELSE <<NL>>)
             /\ flushed' = Len(output')
       /\ (pc = "done" /\ pc' = "done")
          => (output' = output /\ flushed' = flushed)]_vars

\* A render that was not at line start when its events ran out has written
\* its final line break, flushed, and returned to the command loop
C11_Witness ==
    /\ pc = "done"
    /\ main_pc = "read"
    /\ ~at_line_start
    /\ output # <<>>
    /\ output[Len(output)] = NL
    /\ flushed = Len(output)
    /\ rendered # <<>>

(***************************************************************************)
(* C12: every render starts from the same state (at line start, no pending *)
(* newlines, not in a code block, the code buffer empty, the language      *)
(* "text", both stacks empty, nothing written) whatever was rendered       *)
(* before, and two renders in a row of the same events at the same         *)
(* terminal width write the same output.                                   *)
(***************************************************************************)
C12_RendersStartFresh ==
    /\ (main_pc = "render" /\ pc = "run" /\ events = <<>>)
       => (InitLocals /\ output = <<>>)
    /\ (/\ Len(rendered) = 2
        /\ rendered[1].events = rendered[2].events
        /\ rendered[1].cols = rendered[2].cols)
       => rendered[1].out = rendered[2].out

\* The same paragraph was rendered twice in a row at the same width; the
\* first render ended off the line start, and both wrote the same output
C12_Witness ==
    /\ Len(rendered) = 2
    /\ rendered[1].events = rendered[2].events
    /\ rendered[1].cols = rendered[2].cols
    /\ \E i \in 1..Len(rendered[1].events) :
           rendered[1].events[i].kind = "Text"
    /\ rendered[1].events[1] = StartEv("Paragraph", NoNum, <<>>)
    /\ rendered[1].out = rendered[2].out
    /\ rendered[1].out # <<>>

\* The step enters render_markdown
EntersRender == main_pc # "render" /\ main_pc' = "render"

(***************************************************************************)
(* C13: in the command loop a render is entered only from the wait for the *)
(* network call, when that call has returned Ok, when no render is in      *)
(* progress, and as the first render for that line; the events of a render *)
(* are handled only inside it; when the call returns an error, a message   *)
(* is written to stderr, no render is entered and the loop is back at its  *)
(* prompt.                                                                 *)
(***************************************************************************)
C13_RenderOnlyAfterAnswer ==
    [][/\ EntersRender
          => /\ main_pc = "await"
             /\ answer' = "Ok"
             /\ pc # "run"
             /\ invoked = 0
             /\ invoked' = 1
       /\ (events' # events \/ output' # output \/ pc' # pc)
          => main_pc' = "render"
       /\ (main_pc = "await" /\ answer' # "Ok")
          => /\ Len(errlog') = Len(errlog) + 1
             /\ main_pc' = "read"
             /\ invoked' = 0
             /\ UNCHANGED <<pc, events, output>>]_vars

\* The network call failed for the first line: its error was written and no
\* render entered; the loop went on to the second line, whose response was
\* rendered once
C13_Witness ==
    /\ reads = 2
    /\ Len(errlog) = 1
    /\ answer = "Ok"
    /\ invoked = 1
    /\ Len(rendered) = 1
    /\ main_pc = "read"

(***************************************************************************)
(* The list stack, the code accumulator, inline styles.                    *)
(***************************************************************************)
\* The number of lists among the open tags
OpenLists == Cardinality({k \in 1..Len(open) : open[k] = "List"})

(***************************************************************************)
(* C14: after any prefix of a well-nested stream, the list stack is as     *)
(* long as the number of lists that are open, and its frame at position i  *)
(* (the bottom at 0) has the indent depth i.                               *)
(***************************************************************************)
C14_StackMirrorsOpenLists ==
    wellNested
    => /\ Len(list_stack) = OpenLists
       /\ \A i \in 1..Len(list_stack) : list_stack[i].indent_level = i - 1

\* Three lists were opened inside one another and the innermost one closed:
\* two frames are left, of depths 0 and 1
C14_Witness ==
    /\ wellNested
    /\ \E i \in 1..NEvents : IsEnd(i, "List") /\ ListsAround(i) = 3
    /\ OpenLists = 2
    /\ Len(list_stack) = 2
    /\ list_stack[1].indent_level = 0
    /\ list_stack[2].indent_level = 1

(***************************************************************************)
(* C15: a text event that arrives inside a code block writes nothing, is   *)
(* appended to the code buffer and leaves pending_newlines and             *)
(* at_line_start as they were; and whenever the machine is not in a code   *)
(* block, the code buffer is empty and the code language is "text".        *)
(***************************************************************************)
C15_CodeTextOnlyAccumulates ==
    [][/\ (NEvents' = NEvents + 1 /\ LastEvent'.kind = "Text"
           /\ Top = "CodeBlock")
          => /\ Printed = <<>>
             /\ code_buffer' = code_buffer \o LastEvent'.txt
             /\ UNCHANGED <<pending_newlines, at_line_start>>
       /\ ~in_code_block => (code_buffer = <<>> /\ code_language = TextLang)
       /\ ~in_code_block'
          => (code_buffer' = <<>> /\ code_language' = TextLang)]_vars

\* A code block in Rust took two text events into its buffer and was
\* ended: the buffer is empty again and the language back to "text"
C15_Witness ==
    /\ NEvents >= 4
    /\ IsEnd(NEvents, "CodeBlock")
    /\ LangOf(NEvents) = Rust
    /\ events[NEvents - 1].kind = "Text"
    /\ events[NEvents - 2].kind = "Text"
    /\ Chunk(NEvents - 1) = <<>>
    /\ Chunk(NEvents) # <<>>
    /\ ~in_code_block
    /\ code_buffer = <<>>
    /\ code_language = TextLang

\* The tags of emphasis, strong and strikethrough
SpanStyles == {"Emphasis", "Strong", "Strikethrough"}

\* The output up to the point where event i began to write
OutputBefore(i) == SubSeq(output, 1, marks[i])

(***************************************************************************)
(* C16: the end of an emphasis, strong or strikethrough span writes one    *)
(* reset, after which no style is on; so a text that follows the end of an *)
(* inner span while the outer span is still open is written unstyled.      *)
(***************************************************************************)
C16_InnerEndResetsAllStyles ==
    \A i \in 1..NEvents :
        /\ (events[i].kind = "End" /\ events[i].tag \in SpanStyles)
           => /\ Chunk(i) = <<RESET>>
              /\ ~StyleActive(OutputBefore(i) \o Chunk(i))
        /\ (/\ i > 1
            /\ events[i].kind = "Text"
            /\ events[i - 1].kind = "End"
            /\ events[i - 1].tag \in SpanStyles
            /\ Parent(i) # 0
            /\ events[Parent(i)].tag \in SpanStyles)
           => /\ ~StyleActive(OutputBefore(i))
              /\ \A k \in 1..Len(Chunk(i)) : Chunk(i)[k] \notin Escapes

\* Inside an emphasis span a strong span was opened and ended, and the
\* text after it, still inside the emphasis, was written with no style on
C16_Witness ==
    \E i \in 2..NEvents :
        /\ events[i].kind = "Text"
        /\ IsEnd(i - 1, "Strong")
        /\ Parent(i) # 0
        /\ IsStart(Parent(i), "Emphasis")
        /\ \E k \in 1..marks[i] : output[k] = "ITALIC"
        /\ Chunk(i) = Word2
        /\ ~StyleActive(OutputBefore(i))

(***************************************************************************)
(* Lines: list items, block quotes, the line-start flag, paragraphs.       *)
(***************************************************************************)
\* Whether a visible text ends at the beginning of a line
EndsAtLineStart(s) == s = <<>> \/ s[Len(s)] = NL

(***************************************************************************)
(* C17: the marker of every list item (its indent, then the counter or the *)
(* bullet) begins an output line, also for an item of an outer list that   *)
(* follows the end of a nested list, and no newline is pending after an    *)
(* Item-Start.                                                             *)
(***************************************************************************)
C17_ItemMarkerBeginsLine ==
    wellNested =>
        \A i \in 1..NEvents :
            (IsStart(i, "Item") /\ Parent(i) # 0 /\ IsStart(Parent(i), "List"))
            => /\ \/ EndsAtLineStart(Visible(OutputBefore(i)))
                  \/ (Chunk(i) # <<>> /\ Head(Chunk(i)) = NL)
               /\ i = NEvents => pending_newlines = 0

RECURSIVE InQuote(_)
\* Whether event i arrives inside a block quote
InQuote(i) ==
    /\ Parent(i) # 0
    /\ (IsStart(Parent(i), "BlockQuote") \/ InQuote(Parent(i)))

(***************************************************************************)
(* C18: a Block-Quote-Start flushes at least one newline, a Block-Quote-   *)
(* End leaves at least one pending, and every line of a text written       *)
(* inside a block quote is styled and begins with a bar glyph.             *)
(***************************************************************************)
C18_QuotedLinesHaveBar ==
    wellNested =>
        \A i \in 1..NEvents :
            /\ IsStart(i, "BlockQuote") => LeadingNewlines(Chunk(i)) >= 1
            /\ (IsEnd(i, "BlockQuote") /\ i = NEvents)
               => pending_newlines >= 1
            /\ (events[i].kind = "Text" /\ InQuote(i) /\ Chunk(i) # <<>>)
               => /\ \E k \in 1..Len(Chunk(i)) : Chunk(i)[k] \in StyleStarts
                  /\ LET shown == Lines(TrimStartMatches(Visible(Chunk(i)),
                                                         NL))
                     IN  \A k \in 1..Len(shown) :
                             shown[k] # <<>> /\ Head(shown[k]) = VBAR

(***************************************************************************)
(* C19: after every event, at_line_start is true exactly when the output   *)
(* written so far is empty or ends with a line break (escape sequences     *)
(* apart), and the output of a render that has returned ends at the        *)
(* beginning of a line.                                                    *)
(***************************************************************************)
C19_FlagMatchesOutput ==
    wellNested =>
        /\ pc = "run" => (at_line_start <=> EndsAtLineStart(Visible(output)))
        /\ pc = "done" => EndsAtLineStart(Visible(output))

(***************************************************************************)
(* C20: the texts of two consecutive paragraphs are never on one output    *)
(* line: the first text of a paragraph that follows another paragraph is   *)
(* written after a line break, at top level and inside a list item alike.  *)
(***************************************************************************)
C20_ParagraphsOnSeparateLines ==
    wellNested =>
        \A s \in 3..(NEvents - 1) :
            (/\ IsStart(s, "Paragraph")
             /\ IsEnd(s - 1, "Paragraph")
             /\ events[s - 2].kind = "Text"
             /\ events[s + 1].kind = "Text")
            => (Chunk(s + 1) # <<>> /\ Head(Chunk(s + 1)) = NL)

====
